---- MODULE Spec2Model ----
(***************************************************************************)
(* Document issuance of the Dimacza CRM/ERP backend (src/index.js):        *)
(* POST /api/documents (folio allocation, totals, transactional write of   *)
(* header and items), PUT /api/documents/:id/status, DELETE                *)
(* /api/documents/:id, GET /api/documents and GET /api/documents/:id/ver,  *)
(* over the PostgreSQL tables documents and document_items.                *)
(*                                                                         *)
(* The store is PostgreSQL at its default isolation level, READ COMMITTED: *)
(* a statement sees the rows committed before it starts plus the rows of   *)
(* its own transaction.  Rows written through the pooled client between    *)
(* BEGIN and COMMIT are kept per request (txDocs, txItems) and reach the   *)
(* tables at COMMIT; statements sent through pool.query autocommit.        *)
(* One action is one awaited statement together with the synchronous       *)
(* JavaScript that follows it up to the next await.                        *)
(*                                                                         *)
(* Amounts are whole pesos (integer quantity and price); the descriptive   *)
(* columns no operation here reads (date, notes, reference, ...) are left  *)
(* out of the rows.                                                        *)
(***************************************************************************)
EXTENDS Integers, Sequences, FiniteSets, TLC

\* ---------------------------------------------------------------- bounds
MaxRequests == 2
MaxItems == 2
MaxQty == 2

\* ------------------------------------------------------ program constants
FolioFloor == 6060
TaxRatePct == 19

\* ------------------------------------------------------------ JS values
\* A JSON body field: absent (undefined), null, a number or a string.  A
\* string is the sequence of its characters, '' being <<>>.
Undef == [k |-> "undef", v |-> 0]
Null == [k |-> "null", v |-> 0]
Num(n) == [k |-> "num", v |-> n]
Str(s) == [k |-> "str", v |-> s]

\* JavaScript truthiness, as `!nextFolio`, `total || 0` and `reference || ''`
\* use it: undefined, null, 0 and '' are falsy.
Truthy(x) ==
  CASE x.k = "num" -> x.v # 0
    [] x.k = "str" -> x.v # <<>>
    [] OTHER -> FALSE

\* ------------------------------------------------------------ SQL values
\* An aggregate over no rows is NULL: <<>> is NULL, <<n>> is the value n.
SqlMax(S) == IF S = {} THEN <<>> ELSE <<CHOOSE m \in S : \A x \in S : x <= m>>
Coalesce(a, d) == IF a = <<>> THEN d ELSE a[1]
Greatest(a, b) == IF a >= b THEN a ELSE b

\* CAST(n AS TEXT) of a non-negative integer.
DigitText(n) == <<"0", "1", "2", "3", "4", "5", "6", "7", "8", "9">>[n + 1]
RECURSIVE IntToText(_)
IntToText(n) ==
  IF n < 10 THEN <<DigitText(n)>> ELSE IntToText(n \div 10) \o <<DigitText(n % 10)>>

\* The integer PostgreSQL reads from a text of decimal digits.
RECURSIVE TextToInt(_)
TextToInt(s) ==
  IF s = <<>> THEN 0
  ELSE 10 * TextToInt(SubSeq(s, 1, Len(s) - 1))
       + (CHOOSE n \in 0 .. 9 : DigitText(n) = s[Len(s)])

\* The value an INTEGER column takes from a parameter that is a number or a
\* string of digits.
IntegerParam(x) == IF x.k = "str" THEN TextToInt(x.v) ELSE x.v

\* A query parameter as node-postgres sends it: undefined and null go as
\* NULL.
SqlParam(x) == IF x.k \in {"undef", "null"} THEN <<>> ELSE <<x.v>>

\* ------------------------------------------------------------ input sets
Writers == {1, 2}
Readers == {1}
Types == {"FAC", "COT"}
Companies == {1}
Prices == {50, 500, 1000}
Quantities == 1 .. MaxQty
StatusInputs == {"Emitida", "Pagada"}
\* The explicit folio of an imported document: the number the allocator
\* gives the first document of a type.
ExplicitFolio == FolioFloor

ItemInputs == [quantity : Quantities, price : Prices]
ItemA == [quantity |-> 2, price |-> 1000]
ItemB == [quantity |-> 1, price |-> 500]

SeqsUpTo(S, n) == UNION {[1 .. k -> S] : k \in 0 .. n}

Request(t, c, f, tot, its) ==
  [type |-> t, company_id |-> c, folio |-> f, total |-> tot, items |-> its,
   reference |-> Undef]

\* The request r with the body field reference set to the string s.
WithReference(r, s) == [r EXCEPT !.reference = Str(s)]

\* Requests of the concurrent specification: both types, automatic or
\* explicit folio, no items or two items.
Requests ==
  {Request(t, Num(1), f, Undef, its) :
     t \in Types, f \in {Undef, Num(ExplicitFolio)}, its \in {<<>>, <<ItemA, ItemB>>}}

\* Requests that leave the folio to the allocator.
AutoRequests == {r \in Requests : ~Truthy(r.folio)}

\* Requests of the totals specification: every item list up to MaxItems and
\* an absent, zero or positive caller-supplied total.
CalcRequests ==
  {Request("FAC", Num(1), Undef, tot, its) :
     tot \in {Undef, Num(0), Num(1000)}, its \in SeqsUpTo(ItemInputs, MaxItems)}

\* Requests of the read specification: automatic folio, and a body that
\* names company 1, has no company_id, or names a company that does not
\* exist.
AnyCompanyRequests ==
  AutoRequests
    \cup {Request("FAC", Undef, Undef, Undef, its) : its \in {<<>>, <<ItemA, ItemB>>}}
    \cup {Request("FAC", Num(2), Undef, Undef, <<>>)}

\* Requests of the list specification: automatic folios with and without
\* items, an imported document with a folio below the floor and a
\* reference, and a reference on an automatic folio.
ListCreateRequests ==
  {Request("FAC", Num(1), Undef, Undef, <<ItemA, ItemB>>),
   WithReference(Request("COT", Num(1), Num(60), Undef, <<>>), <<"X">>),
   WithReference(Request("FAC", Num(1), Undef, Undef, <<>>), <<"X">>)}

\* Requests of the folio specification: no folio, a falsy one (null, 0, ''),
\* the string '0', and imported documents with a folio below and above the
\* floor.
FolioRequests ==
  {Request("FAC", Num(1), f, Undef, <<>>) :
     f \in {Undef, Null, Num(0), Str(<<>>), Str(<<"0">>), Num(60), Num(7000)}}

\* Table companies: the name of each company.
CompanyNames == [c \in Companies |-> <<"A", "b">>]

\* The search texts of the list specification.
Searches == {<<"a", "B">>, <<"6", "0", "6">>, <<"x">>, <<"_">>, <<"%">>}

NoRequest == Request("FAC", Num(1), Undef, Undef, <<>>)

VARIABLES
  documents,        \* committed rows of table documents
  document_items,   \* committed rows of table document_items
  doc_seq,          \* last value of documents.id's sequence (SERIAL)
  item_seq,         \* last value of document_items.id's sequence (SERIAL)
  pc,               \* per request handler: the statement it awaits
  req,              \* per request handler: req.body
  nextFolio,        \* per request handler: let nextFolio
  docId,            \* per request handler: const docId (0 before the insert)
  itemIdx,          \* per request handler: items already inserted
  txDocs,           \* per request handler: uncommitted documents rows
  txItems,          \* per request handler: uncommitted document_items rows
  err,              \* per request handler: the statement whose rejection was caught
  conn,             \* per request handler: clients acquired and released for the request
  res,              \* per request handler: HTTP status sent ("none" if none)
  resDoc,           \* per request handler: the document rows of the 200 body
  rreq,             \* per reader: the request (route, :id, ?type)
  rpc,              \* per reader: the statement it awaits
  rdRows,           \* per reader: const docs = result.rows
  rdOut,            \* per reader: the documents already paired with items
  rres,             \* per reader: HTTP status sent ("none" if none)
  nreq,             \* requests received so far
  issued            \* history: every <<type, folio>> ever committed

vars == <<documents, document_items, doc_seq, item_seq, pc, req, nextFolio,
          docId, itemIdx, txDocs, txItems, err, conn, res, resDoc, rreq, rpc, rdRows, rdOut,
          rres, nreq, issued>>

store == <<documents, document_items>>
locals == <<req, nextFolio, docId, itemIdx, txDocs, txItems, err, conn, res, resDoc>>
readers == <<rreq, rpc, rdRows, rdOut, rres>>

\* ------------------------------------------------------------ allocation
\* Mutant: the allocation query without GREATEST(..., 6060).
NextFolioNoFloor(rows, type) ==
  Coalesce(SqlMax({d.folio : d \in {x \in rows : x.type = type}}), 0) + 1

\* Mutant: the allocation query without the + 1.
NextFolioNoIncrement(rows, type) ==
  Greatest(Coalesce(SqlMax({d.folio : d \in {x \in rows : x.type = type}}), 0),
           FolioFloor)

\* Mutant: the folio taken from the number of documents of the type.
NextFolioFromCount(rows, type) ==
  Cardinality({x \in rows : x.type = type}) + FolioFloor

\* Mutant: the allocation query without WHERE type = $1.
NextFolioAnyType(rows, type) ==
  Greatest(Coalesce(SqlMax({d.folio : d \in rows}), 0) + 1, FolioFloor)

\* SELECT GREATEST(COALESCE(MAX(folio), 0) + 1, 6060) FROM documents WHERE type = $1
NextFolioQuery(rows, type) ==
  Greatest(Coalesce(SqlMax({d.folio : d \in {x \in rows : x.type = type}}), 0) + 1,
           FolioFloor)

\* ---------------------------------------------------------------- totals
\* items.forEach(item => { neto += item.quantity * item.price; })
RECURSIVE NetoOf(_)
NetoOf(items) ==
  IF items = <<>> THEN 0
  ELSE NetoOf(SubSeq(items, 1, Len(items) - 1))
       + items[Len(items)].quantity * items[Len(items)].price

\* Mutant: Math.floor in place of Math.round.
MathFloorTax(neto) == (TaxRatePct * neto) \div 100

\* Math.round(neto * 0.19): nearest integer, a tie going up.
MathRoundTax(neto) == (TaxRatePct * neto + 50) \div 100

\* The sum over the items of 0.19 * quantity * price, each rounded half-up.
RECURSIVE PerItemTax(_)
PerItemTax(items) ==
  IF items = <<>> THEN 0
  ELSE (19 * Head(items).quantity * Head(items).price + 50) \div 100
       + PerItemTax(Tail(items))

\* Mutant: the tax rounded per item and summed.
ComputeTotalsPerItemTax(items, total) ==
  IF Len(items) > 0
    THEN LET neto == NetoOf(items)
             tax == PerItemTax(items)
         IN [neto |-> neto, tax |-> tax, total |-> neto + tax]
    ELSE [neto |-> 0, tax |-> 0, total |-> IF Truthy(total) THEN total.v ELSE 0]

\* Mutant: with items the total is the neto, the tax left out of it.
ComputeTotalsWithoutTax(items, total) ==
  IF Len(items) > 0
    THEN LET neto == NetoOf(items)
         IN [neto |-> neto, tax |-> (TaxRatePct * neto + 50) \div 100, total |-> neto]
    ELSE [neto |-> 0, tax |-> 0, total |-> IF Truthy(total) THEN total.v ELSE 0]

\* Mutant: the caller-supplied total is dropped for every item list.
ComputeTotalsIgnoreSupplied(items, total) ==
  LET neto == NetoOf(items)
      tax == (TaxRatePct * neto + 50) \div 100
  IN [neto |-> neto, tax |-> tax, total |-> neto + tax]

\* let finalTotal = total || 0; let neto = 0, tax = 0; if (items && items.length > 0) ...
ComputeTotals(items, total) ==
  IF Len(items) > 0
    THEN LET neto == NetoOf(items)
             tax == MathRoundTax(neto)
         IN [neto |-> neto, tax |-> tax, total |-> neto + tax]
    ELSE [neto |-> 0, tax |-> 0, total |-> IF Truthy(total) THEN total.v ELSE 0]

\* A reader's request: GET /api/documents?type= (type "" when absent) or
\* GET /api/documents/:id/ver.
ListRequest(type) == [op |-> "list", id |-> 0, type |-> type, search |-> <<>>]
VerRequest(id) == [op |-> "ver", id |-> id, type |-> "", search |-> <<>>]
NoRead == [op |-> "none", id |-> 0, type |-> "", search |-> <<>>]

\* ------------------------------------------------------------------ Init
Init ==
  /\ documents = {}
  /\ document_items = {}
  /\ doc_seq = 0
  /\ item_seq = 0
  /\ pc = [p \in Writers |-> "idle"]
  /\ req = [p \in Writers |-> NoRequest]
  /\ nextFolio = [p \in Writers |-> 0]
  /\ docId = [p \in Writers |-> 0]
  /\ itemIdx = [p \in Writers |-> 0]
  /\ txDocs = [p \in Writers |-> {}]
  /\ txItems = [p \in Writers |-> {}]
  /\ err = [p \in Writers |-> "none"]
  /\ conn = [p \in Writers |-> [acquired |-> 0, released |-> 0]]
  /\ res = [p \in Writers |-> "none"]
  /\ resDoc = [p \in Writers |-> {}]
  /\ rreq = [r \in Readers |-> NoRead]
  /\ rpc = [r \in Readers |-> "idle"]
  /\ rdRows = [r \in Readers |-> <<>>]
  /\ rdOut = [r \in Readers |-> <<>>]
  /\ rres = [r \in Readers |-> "none"]
  /\ nreq = 0
  /\ issued = {}

\* --------------------------------------------------- POST /api/documents
\* The request arrives and pool.connect() resolves with a client; BEGIN is
\* sent.
Receive(p, r) ==
  /\ pc[p] \in {"idle", "done"}
  /\ nreq < MaxRequests
  /\ nreq' = nreq + 1
  /\ pc' = [pc EXCEPT ![p] = "begin"]
  /\ req' = [req EXCEPT ![p] = r]
  /\ nextFolio' = [nextFolio EXCEPT ![p] = 0]
  /\ docId' = [docId EXCEPT ![p] = 0]
  /\ itemIdx' = [itemIdx EXCEPT ![p] = 0]
  /\ txDocs' = [txDocs EXCEPT ![p] = {}]
  /\ txItems' = [txItems EXCEPT ![p] = {}]
  /\ res' = [res EXCEPT ![p] = "none"]
  /\ resDoc' = [resDoc EXCEPT ![p] = {}]
  /\ conn' = [conn EXCEPT ![p] = [acquired |-> 1, released |-> 0]]
  /\ UNCHANGED <<store, doc_seq, item_seq, err, readers, issued>>

\* Mutant: every number in the body is taken as the folio, 0 included
\* (typeof nextFolio !== 'number' in place of !nextFolio).
BeginTxAnyNumber(p) ==
  /\ pc[p] = "begin"
  /\ IF req[p].folio.k = "num"
       THEN /\ nextFolio' = [nextFolio EXCEPT ![p] = req[p].folio.v]
            /\ pc' = [pc EXCEPT ![p] = "header"]
       ELSE /\ pc' = [pc EXCEPT ![p] = "folio"]
            /\ UNCHANGED nextFolio
  /\ UNCHANGED <<store, doc_seq, item_seq, req, conn, docId, itemIdx, txDocs, txItems,
                 err, res, resDoc, readers, nreq, issued>>

\* Mutant: the allocation query is sent whatever folio the body carries.
BeginTxAlwaysAllocates(p) ==
  /\ pc[p] = "begin"
  /\ pc' = [pc EXCEPT ![p] = "folio"]
  /\ UNCHANGED <<store, doc_seq, item_seq, req, conn, nextFolio, docId, itemIdx, txDocs,
                 txItems, err, res, resDoc, readers, nreq, issued>>

\* BEGIN resolves; an explicit (truthy) folio is taken as it is, otherwise
\* the allocation query is sent.  nextFolio holds the integer the INSERT
\* will store: a string of digits is passed on as it is and read as an
\* integer by the store.
BeginTx(p) ==
  /\ pc[p] = "begin"
  /\ IF Truthy(req[p].folio)
       THEN /\ nextFolio' = [nextFolio EXCEPT ![p] = IntegerParam(req[p].folio)]
            /\ pc' = [pc EXCEPT ![p] = "header"]
       ELSE /\ pc' = [pc EXCEPT ![p] = "folio"]
            /\ UNCHANGED nextFolio
  /\ UNCHANGED <<store, doc_seq, item_seq, req, conn, docId, itemIdx, txDocs, txItems,
                 err, res, resDoc, readers, nreq, issued>>

\* The allocation query runs on the committed rows (the transaction has
\* written none yet) and its result becomes nextFolio.
SelectFolio(p) ==
  /\ pc[p] = "folio"
  /\ nextFolio' = [nextFolio EXCEPT ![p] = NextFolioQuery(documents, req[p].type)]
  /\ pc' = [pc EXCEPT ![p] = "header"]
  /\ UNCHANGED <<store, doc_seq, item_seq, req, conn, docId, itemIdx, txDocs, txItems,
                 err, res, resDoc, readers, nreq, issued>>

\* company_id INTEGER REFERENCES companies(id): NULL passes, any other value
\* must be the id of a company.
ForeignKeyOk(c) == c = <<>> \/ c[1] \in Companies

\* The documents row the INSERT ... RETURNING * writes.
HeaderRow(id, r, folio) ==
  LET t == ComputeTotals(r.items, r.total)
  IN [id |-> id, type |-> r.type, folio |-> folio,
      company_id |-> SqlParam(r.company_id),
      status |-> "Emitida", neto |-> t.neto, tax |-> t.tax, total |-> t.total,
      reference |-> IF Truthy(r.reference) THEN r.reference.v ELSE <<>>]

\* Mutant: the header INSERT sent through pool.query, outside the
\* transaction, so the row is committed at once.
InsertHeaderAutocommit(p) ==
  /\ pc[p] = "header"
  /\ doc_seq' = doc_seq + 1
  /\ docId' = [docId EXCEPT ![p] = doc_seq + 1]
  /\ documents' = documents \cup {HeaderRow(doc_seq + 1, req[p], nextFolio[p])}
  /\ pc' = [pc EXCEPT ![p] = IF Len(req[p].items) > 0 THEN "items" ELSE "commit"]
  /\ UNCHANGED <<document_items, item_seq, req, conn, nextFolio, itemIdx, txDocs, txItems,
                 err, res, resDoc, readers, nreq, issued>>

\* Mutant: a UNIQUE (type, folio) constraint on documents: the INSERT is
\* rejected when a row of the same type and folio exists.
InsertHeaderUnique(p) ==
  /\ pc[p] = "header"
  /\ IF \E d \in documents \cup UNION {txDocs[q] : q \in Writers} :
          d.type = req[p].type /\ d.folio = nextFolio[p]
       THEN /\ pc' = [pc EXCEPT ![p] = "rollback"]
            /\ err' = [err EXCEPT ![p] = "header"]
            /\ UNCHANGED <<doc_seq, docId, txDocs>>
       ELSE /\ doc_seq' = doc_seq + 1
            /\ docId' = [docId EXCEPT ![p] = doc_seq + 1]
            /\ txDocs' = [txDocs EXCEPT ![p] = {HeaderRow(doc_seq + 1, req[p], nextFolio[p])}]
            /\ pc' = [pc EXCEPT ![p] = IF Len(req[p].items) > 0 THEN "items" ELSE "commit"]
            /\ UNCHANGED err
  /\ UNCHANGED <<store, item_seq, req, conn, nextFolio, itemIdx, txItems, res, resDoc,
                 readers, nreq, issued>>

\* INSERT INTO documents: the row takes the next id of the sequence and
\* stays uncommitted; company_id must reference a company.
InsertHeader(p) ==
  /\ pc[p] = "header"
  /\ IF ForeignKeyOk(SqlParam(req[p].company_id))
       THEN /\ doc_seq' = doc_seq + 1
            /\ docId' = [docId EXCEPT ![p] = doc_seq + 1]
            /\ txDocs' = [txDocs EXCEPT ![p] = {HeaderRow(doc_seq + 1, req[p], nextFolio[p])}]
            /\ pc' = [pc EXCEPT ![p] = IF Len(req[p].items) > 0 THEN "items" ELSE "commit"]
            /\ UNCHANGED err
       ELSE /\ pc' = [pc EXCEPT ![p] = "rollback"]
            /\ err' = [err EXCEPT ![p] = "header"]
            /\ UNCHANGED <<doc_seq, docId, txDocs>>
  /\ UNCHANGED <<store, item_seq, req, conn, nextFolio, itemIdx, txItems, res, resDoc,
                 readers, nreq, issued>>

\* Mutant: the item's total is its unit price.
ItemRowUnitPrice(id, document_id, item) ==
  [id |-> id, document_id |-> document_id, quantity |-> item.quantity,
   price |-> item.price, total |-> item.price]

\* The document_items row written for one item of the request.
ItemRow(id, document_id, item) ==
  [id |-> id, document_id |-> document_id, quantity |-> item.quantity,
   price |-> item.price, total |-> item.quantity * item.price]

\* Mutant: the item INSERT sent through pool.query, outside the
\* transaction, so the row is committed at once.
InsertItemAutocommit(p) ==
  /\ pc[p] = "items"
  /\ item_seq' = item_seq + 1
  /\ document_items' = document_items
        \cup {ItemRow(item_seq + 1, docId[p], req[p].items[itemIdx[p] + 1])}
  /\ itemIdx' = [itemIdx EXCEPT ![p] = @ + 1]
  /\ pc' = [pc EXCEPT ![p] = IF itemIdx[p] + 1 < Len(req[p].items) THEN "items" ELSE "commit"]
  /\ UNCHANGED <<documents, doc_seq, req, conn, nextFolio, docId, txDocs, txItems, err,
                 res, resDoc, readers, nreq, issued>>

\* for (const item of items) INSERT INTO document_items: one item per step.
InsertItem(p) ==
  /\ pc[p] = "items"
  /\ item_seq' = item_seq + 1
  /\ txItems' = [txItems EXCEPT ![p] =
                   @ \cup {ItemRow(item_seq + 1, docId[p], req[p].items[itemIdx[p] + 1])}]
  /\ itemIdx' = [itemIdx EXCEPT ![p] = @ + 1]
  /\ pc' = [pc EXCEPT ![p] = IF itemIdx[p] + 1 < Len(req[p].items) THEN "items" ELSE "commit"]
  /\ UNCHANGED <<store, doc_seq, req, conn, nextFolio, docId, txDocs, err, res, resDoc,
                 readers, nreq, issued>>

\* COMMIT: the header and its items reach the tables together; 200 is sent
\* and the client released.
Commit(p) ==
  /\ pc[p] = "commit"
  /\ documents' = documents \cup txDocs[p]
  /\ document_items' = document_items \cup txItems[p]
  /\ issued' = issued \cup {<<d.type, d.folio>> : d \in txDocs[p]}
  /\ txDocs' = [txDocs EXCEPT ![p] = {}]
  /\ txItems' = [txItems EXCEPT ![p] = {}]
  /\ res' = [res EXCEPT ![p] = "200"]
  /\ resDoc' = [resDoc EXCEPT ![p] = txDocs[p]]
  /\ pc' = [pc EXCEPT ![p] = "done"]
  /\ nextFolio' = [nextFolio EXCEPT ![p] = 0]
  /\ docId' = [docId EXCEPT ![p] = 0]
  /\ itemIdx' = [itemIdx EXCEPT ![p] = 0]
  /\ conn' = [conn EXCEPT ![p].released = @ + 1]
  /\ UNCHANGED <<doc_seq, item_seq, req, err, readers, nreq>>

\* The awaited statement (BEGIN, the allocation query, an INSERT, COMMIT) is
\* rejected by the store: control goes to the catch block.
StmtFail(p) ==
  /\ pc[p] \in {"begin", "folio", "header", "items", "commit"}
  /\ pc' = [pc EXCEPT ![p] = "rollback"]
  /\ err' = [err EXCEPT ![p] = pc[p]]
  /\ UNCHANGED <<store, doc_seq, item_seq, req, conn, nextFolio, docId, itemIdx, txDocs,
                 txItems, res, resDoc, readers, nreq, issued>>

\* catch: ROLLBACK resolves, the uncommitted rows are dropped, 500 is sent
\* and the client released.
Rollback(p) ==
  /\ pc[p] = "rollback"
  /\ txDocs' = [txDocs EXCEPT ![p] = {}]
  /\ txItems' = [txItems EXCEPT ![p] = {}]
  /\ res' = [res EXCEPT ![p] = "500"]
  /\ pc' = [pc EXCEPT ![p] = "done"]
  /\ nextFolio' = [nextFolio EXCEPT ![p] = 0]
  /\ docId' = [docId EXCEPT ![p] = 0]
  /\ itemIdx' = [itemIdx EXCEPT ![p] = 0]
  /\ err' = [err EXCEPT ![p] = "none"]
  /\ conn' = [conn EXCEPT ![p].released = @ + 1]
  /\ UNCHANGED <<store, doc_seq, item_seq, req, resDoc, readers, nreq, issued>>

\* Mutant: client.release() after the catch block instead of in finally:
\* when ROLLBACK is rejected the client is never released.
RollbackFailNoRelease(p) ==
  /\ pc[p] = "rollback"
  /\ txDocs' = [txDocs EXCEPT ![p] = {}]
  /\ txItems' = [txItems EXCEPT ![p] = {}]
  /\ pc' = [pc EXCEPT ![p] = "done"]
  /\ nextFolio' = [nextFolio EXCEPT ![p] = 0]
  /\ docId' = [docId EXCEPT ![p] = 0]
  /\ itemIdx' = [itemIdx EXCEPT ![p] = 0]
  /\ err' = [err EXCEPT ![p] = "none"]
  /\ UNCHANGED <<store, doc_seq, item_seq, req, conn, res, resDoc, readers, nreq, issued>>

\* catch: ROLLBACK itself is rejected (the connection is gone, so the server
\* aborts the transaction); the catch block throws before res.status(500),
\* finally releases the client and no response is sent.
RollbackFail(p) ==
  /\ pc[p] = "rollback"
  /\ txDocs' = [txDocs EXCEPT ![p] = {}]
  /\ txItems' = [txItems EXCEPT ![p] = {}]
  /\ pc' = [pc EXCEPT ![p] = "done"]
  /\ nextFolio' = [nextFolio EXCEPT ![p] = 0]
  /\ docId' = [docId EXCEPT ![p] = 0]
  /\ itemIdx' = [itemIdx EXCEPT ![p] = 0]
  /\ err' = [err EXCEPT ![p] = "none"]
  /\ conn' = [conn EXCEPT ![p].released = @ + 1]
  /\ UNCHANGED <<store, doc_seq, item_seq, req, res, resDoc, readers, nreq, issued>>

\* ------------------------------------------ PUT /api/documents/:id/status
\* Mutant: the update also resets the total of the document.
UpdateStatusResetsTotal(id, s) ==
  /\ \E d \in documents : d.id = id /\ d.status # s
  /\ documents' = {IF d.id = id THEN [d EXCEPT !.status = s, !.total = 0] ELSE d :
                     d \in documents}
  /\ UNCHANGED <<document_items, doc_seq, item_seq, pc, locals, readers, nreq, issued>>

\* Mutant: the update without WHERE id = $2, on every document.
UpdateStatusEveryRow(id, s) ==
  /\ \E d \in documents : d.id = id /\ d.status # s
  /\ documents' = {[d EXCEPT !.status = s] : d \in documents}
  /\ UNCHANGED <<document_items, doc_seq, item_seq, pc, locals, readers, nreq, issued>>

\* UPDATE documents SET status = $1 WHERE id = $2
UpdateStatus(id, s) ==
  /\ \E d \in documents : d.id = id /\ d.status # s
  /\ documents' = {IF d.id = id THEN [d EXCEPT !.status = s] ELSE d : d \in documents}
  /\ UNCHANGED <<document_items, doc_seq, item_seq, pc, locals, readers, nreq, issued>>

\* ---------------------------------------------- DELETE /api/documents/:id
\* Mutant: the items of the deleted document are left in place.
DeleteDocumentNoCascade(id) ==
  /\ \E d \in documents : d.id = id
  /\ documents' = {d \in documents : d.id # id}
  /\ UNCHANGED <<document_items, doc_seq, item_seq, pc, locals, readers, nreq, issued>>

\* document_items.document_id is declared ON DELETE CASCADE.
\* Mutant: the deletion waits for every list that is between its statements.
DeleteDocumentAfterList(id) ==
  /\ \E d \in documents : d.id = id
  /\ \A r \in Readers : rpc[r] # "items"
  /\ documents' = {d \in documents : d.id # id}
  /\ document_items' = {i \in document_items : i.document_id # id}
  /\ UNCHANGED <<doc_seq, item_seq, pc, locals, readers, nreq, issued>>

DeleteDocument(id) ==
  /\ \E d \in documents : d.id = id
  /\ documents' = {d \in documents : d.id # id}
  /\ document_items' = {i \in document_items : i.document_id # id}
  /\ UNCHANGED <<doc_seq, item_seq, pc, locals, readers, nreq, issued>>

\* ---------------------------------------------------- GET /api/documents
\* Mutant: ORDER BY d.folio DESC.
RECURSIVE OrderByFolioDesc(_)
OrderByFolioDesc(S) ==
  IF S = {} THEN <<>>
  ELSE LET d == CHOOSE x \in S : \A y \in S : y.folio <= x.folio
       IN <<d>> \o OrderByFolioDesc(S \ {d})

\* ORDER BY d.id DESC
RECURSIVE OrderByIdDesc(_)
OrderByIdDesc(S) ==
  IF S = {} THEN <<>>
  ELSE LET d == CHOOSE x \in S : \A y \in S : y.id <= x.id
       IN <<d>> \o OrderByIdDesc(S \ {d})

\* Mutant: LEFT JOIN companies, which keeps the documents without company.
ListRowsLeftJoin(type) == {d \in documents : type = "" \/ d.type = type}

\* FROM documents d JOIN companies c ON d.company_id = c.id [WHERE d.type = $1]
\* (type "" is the absent, falsy query parameter).
ListRows(type) ==
  {d \in documents : /\ d.company_id # <<>>
                      /\ d.company_id[1] \in Companies
                      /\ (type = "" \/ d.type = type)}

\* Mutant: the items query without its WHERE clause.
ItemsOfEveryDocument(id) == document_items

\* Lower case of a character (the letters of the names, references and
\* search texts above).
Lower(c) ==
  CASE c = "A" -> "a"
    [] c = "B" -> "b"
    [] c = "X" -> "x"
    [] OTHER -> c

LowerText(s) == [i \in 1 .. Len(s) |-> Lower(s[i])]

\* s LIKE p: % matches any run of characters, _ any one character, every
\* other character itself.
RECURSIVE Like(_, _)
Like(s, p) ==
  IF p = <<>> THEN s = <<>>
  ELSE IF Head(p) = "%" THEN Like(s, Tail(p)) \/ (s # <<>> /\ Like(Tail(s), p))
  ELSE IF s = <<>> THEN FALSE
  ELSE (Head(p) = "_" \/ Head(p) = Head(s)) /\ Like(Tail(s), Tail(p))

\* s ILIKE p
ILike(s, p) == Like(LowerText(s), LowerText(p))

\* The list query with the search condition:
\* ... AND (c.name ILIKE $n OR CAST(d.folio AS TEXT) ILIKE $n OR d.reference ILIKE $n),
\* $n being `%${search}%`.
SearchRows(type, search) ==
  LET pattern == <<"%">> \o search \o <<"%">>
  IN {d \in ListRows(type) :
        \/ ILike(CompanyNames[d.company_id[1]], pattern)
        \/ ILike(IntToText(d.folio), pattern)
        \/ ILike(d.reference, pattern)}

\* SELECT * FROM document_items WHERE document_id = $1
ItemsOf(id) == {i \in document_items : i.document_id = id}

\* The first query of the list: the joined, filtered, ordered document rows.
ListDocuments(r, type) ==
  /\ rpc[r] \in {"idle", "done"}
  /\ rreq' = [rreq EXCEPT ![r] = ListRequest(type)]
  /\ LET rows == OrderByIdDesc(ListRows(type))
     IN /\ rdRows' = [rdRows EXCEPT ![r] = rows]
        /\ rdOut' = [rdOut EXCEPT ![r] = <<>>]
        /\ rpc' = [rpc EXCEPT ![r] = IF rows = <<>> THEN "done" ELSE "items"]
        /\ rres' = [rres EXCEPT ![r] = IF rows = <<>> THEN "200" ELSE "none"]
  /\ UNCHANGED <<store, doc_seq, item_seq, pc, locals, nreq, issued>>

\* The first query of the list with a search text (a non-empty string).
SearchDocuments(r, type, search) ==
  /\ rpc[r] \in {"idle", "done"}
  /\ search # <<>>
  /\ rreq' = [rreq EXCEPT ![r] = [ListRequest(type) EXCEPT !.search = search]]
  /\ LET rows == OrderByIdDesc(SearchRows(type, search))
     IN /\ rdRows' = [rdRows EXCEPT ![r] = rows]
        /\ rdOut' = [rdOut EXCEPT ![r] = <<>>]
        /\ rpc' = [rpc EXCEPT ![r] = IF rows = <<>> THEN "done" ELSE "items"]
        /\ rres' = [rres EXCEPT ![r] = IF rows = <<>> THEN "200" ELSE "none"]
  /\ UNCHANGED <<store, doc_seq, item_seq, pc, locals, nreq, issued>>

\* for (let doc of docs): one items query per step, each on the rows
\* committed when it runs; res.json(docs) after the last.
ListItems(r) ==
  /\ rpc[r] = "items"
  /\ LET doc == rdRows[r][Len(rdOut[r]) + 1]
         last == Len(rdOut[r]) + 1 = Len(rdRows[r])
     IN /\ rdOut' = [rdOut EXCEPT ![r] = Append(@, [doc |-> doc, items |-> ItemsOf(doc.id)])]
        /\ rpc' = [rpc EXCEPT ![r] = IF last THEN "done" ELSE "items"]
        /\ rres' = [rres EXCEPT ![r] = IF last THEN "200" ELSE "none"]
  /\ UNCHANGED <<store, doc_seq, item_seq, pc, locals, rreq, rdRows, nreq, issued>>

\* ---------------------------------------------- GET /api/documents/:id/ver
\* Mutant: no row is answered like a store error, with 500.
RenderDocumentNoRowAs500(r, id) ==
  /\ rpc[r] \in {"idle", "done"}
  /\ rreq' = [rreq EXCEPT ![r] = VerRequest(id)]
  /\ LET rows == OrderByIdDesc({d \in ListRows("") : d.id = id})
     IN /\ rdRows' = [rdRows EXCEPT ![r] = rows]
        /\ rdOut' = [rdOut EXCEPT ![r] = <<>>]
        /\ rpc' = [rpc EXCEPT ![r] = IF rows = <<>> THEN "done" ELSE "render"]
        /\ rres' = [rres EXCEPT ![r] = IF rows = <<>> THEN "500" ELSE "none"]
  /\ UNCHANGED <<store, doc_seq, item_seq, pc, locals, nreq, issued>>

\* The joined document of that id; 404 when the query returns no row.
RenderDocument(r, id) ==
  /\ rpc[r] \in {"idle", "done"}
  /\ rreq' = [rreq EXCEPT ![r] = VerRequest(id)]
  /\ LET rows == OrderByIdDesc({d \in ListRows("") : d.id = id})
     IN /\ rdRows' = [rdRows EXCEPT ![r] = rows]
        /\ rdOut' = [rdOut EXCEPT ![r] = <<>>]
        /\ rpc' = [rpc EXCEPT ![r] = IF rows = <<>> THEN "done" ELSE "render"]
        /\ rres' = [rres EXCEPT ![r] = IF rows = <<>> THEN "404" ELSE "none"]
  /\ UNCHANGED <<store, doc_seq, item_seq, pc, locals, nreq, issued>>

\* Mutant: the view marks the document it shows, writing its status.
RenderItemsUpdatesStatus(r) ==
  /\ rpc[r] = "render"
  /\ rdOut' = [rdOut EXCEPT ![r] =
                 <<[doc |-> rdRows[r][1], items |-> ItemsOf(rdRows[r][1].id)]>>]
  /\ rpc' = [rpc EXCEPT ![r] = "done"]
  /\ rres' = [rres EXCEPT ![r] = "200"]
  /\ documents' = {IF d.id = rdRows[r][1].id THEN [d EXCEPT !.status = "Vista"] ELSE d :
                     d \in documents}
  /\ UNCHANGED <<document_items, doc_seq, item_seq, pc, locals, rreq, rdRows, nreq, issued>>

\* The items query of the view, then the page is sent.
RenderItems(r) ==
  /\ rpc[r] = "render"
  /\ rdOut' = [rdOut EXCEPT ![r] =
                 <<[doc |-> rdRows[r][1], items |-> ItemsOf(rdRows[r][1].id)]>>]
  /\ rpc' = [rpc EXCEPT ![r] = "done"]
  /\ rres' = [rres EXCEPT ![r] = "200"]
  /\ UNCHANGED <<store, doc_seq, item_seq, pc, locals, rreq, rdRows, nreq, issued>>

\* A query of the list or of the view is rejected by the store: catch, 500.
ReadFail(r) ==
  /\ rpc[r] \in {"items", "render"}
  /\ rdOut' = [rdOut EXCEPT ![r] = <<>>]
  /\ rpc' = [rpc EXCEPT ![r] = "done"]
  /\ rres' = [rres EXCEPT ![r] = "500"]
  /\ UNCHANGED <<store, doc_seq, item_seq, pc, locals, rreq, rdRows, nreq, issued>>

\* The first query of the list or of the view is rejected by the store:
\* catch, 500.
FirstQueryFail(r, q) ==
  /\ rpc[r] \in {"idle", "done"}
  /\ rreq' = [rreq EXCEPT ![r] = q]
  /\ rdRows' = [rdRows EXCEPT ![r] = <<>>]
  /\ rdOut' = [rdOut EXCEPT ![r] = <<>>]
  /\ rpc' = [rpc EXCEPT ![r] = "done"]
  /\ rres' = [rres EXCEPT ![r] = "500"]
  /\ UNCHANGED <<store, doc_seq, item_seq, pc, locals, nreq, issued>>

\* ------------------------------------------------------- specifications
DocIds == 1 .. MaxRequests

\* The reads of the read specification: the list with each type filter or
\* none, and the view of each id a document can have.
ReadRequests ==
  {ListRequest(t) : t \in Types \cup {""}} \cup {VerRequest(id) : id \in DocIds}

\* Concurrent requests: two create handlers and deletes.
Next ==
  \/ \E p \in Writers, r \in Requests : Receive(p, r)
  \/ \E p \in Writers : BeginTx(p)
  \/ \E p \in Writers : SelectFolio(p)
  \/ \E p \in Writers : InsertHeader(p)
  \/ \E p \in Writers : InsertItem(p)
  \/ \E p \in Writers : Commit(p)
  \/ \E p \in Writers : StmtFail(p)
  \/ \E p \in Writers : Rollback(p)
  \/ \E p \in Writers : RollbackFail(p)
  \/ \E id \in DocIds : DeleteDocument(id)

Spec == Init /\ [][Next]_vars

\* Sequential creates without explicit folio: one handler at a time, every
\* request leaving the folio to the allocator; status updates and deletes.
NextSeq ==
  \/ \E r \in AutoRequests : Receive(1, r)
  \/ BeginTx(1)
  \/ SelectFolio(1)
  \/ InsertHeader(1)
  \/ InsertItem(1)
  \/ Commit(1)
  \/ StmtFail(1)
  \/ Rollback(1)
  \/ RollbackFail(1)
  \/ \E id \in DocIds, s \in StatusInputs : UpdateStatus(id, s)
  \/ \E id \in DocIds : DeleteDocument(id)

SpecSeq == Init /\ [][NextSeq]_vars

\* Two concurrent creates, every request leaving the folio to the allocator.
NextRace ==
  \/ \E p \in Writers, r \in AutoRequests : Receive(p, r)
  \/ \E p \in Writers : BeginTx(p)
  \/ \E p \in Writers : SelectFolio(p)
  \/ \E p \in Writers : InsertHeader(p)
  \/ \E p \in Writers : InsertItem(p)
  \/ \E p \in Writers : Commit(p)
  \/ \E p \in Writers : StmtFail(p)
  \/ \E p \in Writers : Rollback(p)
  \/ \E p \in Writers : RollbackFail(p)

SpecRace == Init /\ [][NextRace]_vars

\* One create handler beside a reader (list or view) and deletes.
NextRead ==
  \/ \E r \in AnyCompanyRequests : Receive(1, r)
  \/ BeginTx(1)
  \/ SelectFolio(1)
  \/ InsertHeader(1)
  \/ InsertItem(1)
  \/ Commit(1)
  \/ StmtFail(1)
  \/ Rollback(1)
  \/ RollbackFail(1)
  \/ \E id \in DocIds : DeleteDocument(id)
  \/ \E r \in Readers, t \in Types \cup {""} : ListDocuments(r, t)
  \/ \E r \in Readers : ListItems(r)
  \/ \E r \in Readers, id \in DocIds : RenderDocument(r, id)
  \/ \E r \in Readers : RenderItems(r)
  \/ \E r \in Readers : ReadFail(r)
  \/ \E r \in Readers, q \in ReadRequests : FirstQueryFail(r, q)

SpecRead == Init /\ [][NextRead]_vars

\* One create request over every item list and caller-supplied total.
NextCalc ==
  \/ \E r \in CalcRequests : nreq = 0 /\ Receive(1, r)
  \/ BeginTx(1)
  \/ SelectFolio(1)
  \/ InsertHeader(1)
  \/ InsertItem(1)
  \/ Commit(1)
  \/ StmtFail(1)
  \/ Rollback(1)
  \/ RollbackFail(1)

SpecCalc == Init /\ [][NextCalc]_vars

\* One create handler, whose statements the store accepts, beside a reader
\* of the list, with and without search text, and deletes.
NextList ==
  \/ \E r \in ListCreateRequests : Receive(1, r)
  \/ BeginTx(1)
  \/ SelectFolio(1)
  \/ InsertHeader(1)
  \/ InsertItem(1)
  \/ Commit(1)
  \/ \E id \in DocIds : DeleteDocument(id)
  \/ \E r \in Readers, t \in Types \cup {""} : ListDocuments(r, t)
  \/ \E r \in Readers, t \in Types \cup {""}, q \in Searches : SearchDocuments(r, t, q)
  \/ \E r \in Readers : ListItems(r)
  \/ \E r \in Readers : ReadFail(r)

SpecList == Init /\ [][NextList]_vars

\* Sequential creates without items, with absent, falsy and explicit
\* folios, and deletes.
NextFolio ==
  \/ \E r \in FolioRequests : Receive(1, r)
  \/ BeginTx(1)
  \/ SelectFolio(1)
  \/ InsertHeader(1)
  \/ Commit(1)
  \/ StmtFail(1)
  \/ Rollback(1)
  \/ RollbackFail(1)
  \/ \E id \in DocIds : DeleteDocument(id)

SpecFolio == Init /\ [][NextFolio]_vars

\* ================================================================ claims
\* The greatest element of a finite set of integers, 0 for the empty set.
MaxOrZero(S) == IF S = {} THEN 0 ELSE CHOOSE m \in S : \A x \in S : x <= m

\* The folios of the rows of one type.
FoliosOf(rows, type) == {d.folio : d \in {x \in rows : x.type = type}}

\* The request handler p holds an open transaction past the allocation.
InProgress(p) == pc[p] \in {"header", "items", "commit"}

\* The handler p answered 200 to a request without explicit folio.
AutoCreated(p) == pc[p] = "done" /\ res[p] = "200" /\ ~Truthy(req[p].folio)

\* C1: without an explicit folio the allocation yields greatest(M + 1, 6060),
\* M the greatest folio of the committed documents of the request's type
\* (0 if none) when the query runs, and that value is the folio of the row
\* the handler inserts and commits.
C1_AutoFolio ==
  [][\A p \in Writers :
       /\ (pc[p] = "folio" /\ pc'[p] = "header") =>
            LET M == MaxOrZero(FoliosOf(documents, req[p].type))
            IN nextFolio'[p] = IF M + 1 >= 6060 THEN M + 1 ELSE 6060
       /\ (InProgress(p) /\ pc'[p] \in {"items", "commit"}) =>
            /\ nextFolio'[p] = nextFolio[p]
            /\ txDocs'[p] # {}
            /\ \A d \in txDocs'[p] : d.folio = nextFolio[p]
       /\ (pc[p] = "commit" /\ res'[p] = "200") =>
            /\ txDocs[p] \subseteq documents'
            /\ resDoc'[p] = txDocs[p]
            /\ \A d \in txDocs[p] : d.folio = nextFolio[p]
    ]_vars

\* C1 witness: two automatic creates of one type are answered, the first
\* document of the type with folio 6060 and the next with 6061, both stored.
C1_Witness ==
  \E p, q \in Writers :
    /\ AutoCreated(p) /\ AutoCreated(q)
    /\ \E d \in resDoc[p], e \in resDoc[q] :
         /\ d \in documents /\ e \in documents
         /\ d.type = e.type /\ d.id < e.id
         /\ d.folio = 6060 /\ e.folio = 6061

\* C2: no two stored documents of the same type have the same folio.
C2_FolioUnique ==
  \A d, e \in documents : (d.type = e.type /\ d.folio = e.folio) => d.id = e.id

\* C3: in sequential creates without explicit folio, the allocated folio is
\* greater than every stored folio of the type, so the stored folios of a
\* type increase strictly with the id, and each is at least 6060.
C3_SequentialIncreasing ==
  /\ \A p \in Writers :
       InProgress(p) =>
         /\ nextFolio[p] >= 6060
         /\ \A d \in documents : d.type = req[p].type => d.folio < nextFolio[p]
  /\ \A d, e \in documents : (d.type = e.type /\ d.id < e.id) => d.folio < e.folio
  /\ \A d \in documents : d.folio >= 6060

\* C3 witness: two documents of one type are stored, the later id with the
\* greater folio, and the second automatic create has just been answered.
C3_Witness ==
  \E d, e \in documents :
    /\ d.type = e.type /\ d.id < e.id /\ d.folio < e.folio
    /\ AutoCreated(1)

\* C4: a <<type, folio>> that was ever committed is never committed again.
C4_NeverReused ==
  [][\A p \in Writers :
       (pc[p] = "commit" /\ res'[p] = "200") =>
         \A d \in txDocs[p] : <<d.type, d.folio>> \notin issued
    ]_vars

HandlerStep(p) == pc'[p] # pc[p] \/ itemIdx'[p] # itemIdx[p]

\* C6: every step of a create handler either is its successful COMMIT, which
\* adds exactly one documents row and exactly len(items) document_items rows
\* referencing it, or leaves both tables unchanged.
C6_OneAndAllOrNothing ==
  [][\A p \in Writers :
       HandlerStep(p) =>
         IF pc[p] = "commit" /\ res'[p] = "200"
           THEN /\ \E d \in documents' \ documents :
                     /\ documents' = documents \cup {d}
                     /\ d.id = docId[p]
                     /\ \A i \in document_items' \ document_items : i.document_id = d.id
                /\ document_items \subseteq document_items'
                /\ Cardinality(document_items' \ document_items) = Len(req[p].items)
           ELSE documents' = documents /\ document_items' = document_items
    ]_vars

\* C6 witness: a create with two items was answered 200 and its header and
\* both items are stored, while the other handler's create failed.
C6_Witness ==
  \E p, q \in Writers :
    /\ pc[p] = "done" /\ res[p] = "200" /\ Len(req[p].items) = 2
    /\ \E d \in resDoc[p] : d \in documents /\ Cardinality(ItemsOf(d.id)) = 2
    /\ pc[q] = "done" /\ res[q] = "500" /\ Len(req[q].items) = 2
    /\ Cardinality(documents) = 1 /\ Cardinality(document_items) = 2

\* C7: nothing refuses a header because of its folio: whenever a handler is
\* about to insert its header, the insert can succeed, whatever folios are
\* stored or pending.
C7_NothingRejects ==
  \A p \in Writers :
    pc[p] = "header" => ENABLED (InsertHeader(p) /\ pc'[p] # "rollback")

\* C7 witness: two creates without explicit folio were both answered 200
\* and their documents, of the same type and the same folio, are both stored.
C7_Witness ==
  \E p, q \in Writers :
    /\ AutoCreated(p) /\ AutoCreated(q)
    /\ \E d \in resDoc[p], e \in resDoc[q] :
         /\ d \in documents /\ e \in documents
         /\ d.id # e.id /\ d.type = e.type /\ d.folio = e.folio

\* The sum of the stored totals of a set of item rows.
RECURSIVE SumTotals(_)
SumTotals(S) ==
  IF S = {} THEN 0 ELSE LET i == CHOOSE x \in S : TRUE IN i.total + SumTotals(S \ {i})

\* C8: the rows of an open create transaction are in neither table and in no
\* reader's rows or result; every stored header has all its items; and a
\* reader pairs a document with all its items, or with none when the
\* document has been deleted meanwhile.
C8_NoPartialVisibility ==
  /\ \A p \in Writers :
       docId[p] # 0 =>
         /\ \A d \in documents : d.id # docId[p]
         /\ ItemsOf(docId[p]) = {}
         /\ \A r \in Readers :
              /\ \A k \in 1 .. Len(rdRows[r]) : rdRows[r][k].id # docId[p]
              /\ \A k \in 1 .. Len(rdOut[r]) : rdOut[r][k].doc.id # docId[p]
  /\ \A d \in documents : SumTotals(ItemsOf(d.id)) = d.neto
  /\ \A r \in Readers : \A k \in 1 .. Len(rdOut[r]) :
       \/ SumTotals(rdOut[r][k].items) = rdOut[r][k].doc.neto
       \/ /\ rdOut[r][k].items = {}
          /\ \A d \in documents : d.id # rdOut[r][k].doc.id

\* C8 witness: a list is between its document query and its items queries
\* while a create has inserted its header and the first of its two items.
C8_Witness ==
  \E r \in Readers :
    /\ rpc[r] = "items"
    /\ pc[1] = "items" /\ itemIdx[1] = 1 /\ Len(req[1].items) = 2
    /\ txDocs[1] # {} /\ txItems[1] # {}

\* The sum of quantity * price over a list, from its first item.
RECURSIVE SumQP(_)
SumQP(L) == IF L = <<>> THEN 0 ELSE Head(L).quantity * Head(L).price + SumQP(Tail(L))

\* t is 0.19 * n rounded to the nearest integer, a tie going up.
IsRoundedTax(t, n) == 100 * t <= 19 * n + 50 /\ 19 * n + 50 < 100 * (t + 1)

\* C9: the stored header of a create has neto = sum of quantity * price,
\* tax = round(0.19 * neto) and total = neto + tax, for every item list
\* when no total is supplied (the empty list giving 0, 0, 0) and for every
\* non-empty list whatever total is supplied.
C9_Totals ==
  \A p \in Writers :
    (pc[p] = "done" /\ res[p] = "200") =>
      /\ resDoc[p] # {}
      /\ \A d \in resDoc[p] :
           /\ d \in documents
           /\ (Len(req[p].items) > 0 \/ req[p].total = Undef) =>
                /\ d.neto = SumQP(req[p].items)
                /\ IsRoundedTax(d.tax, d.neto)
                /\ d.total = d.neto + d.tax
           /\ (Len(req[p].items) = 0 /\ req[p].total = Undef) =>
                (d.neto = 0 /\ d.tax = 0 /\ d.total = 0)

\* C9 witness: the items (2 x 1000) and (1 x 500) are stored as neto 2500,
\* tax 475, total 2975.
C9_Witness ==
  \E p \in Writers :
    /\ pc[p] = "done" /\ res[p] = "200"
    /\ req[p].items = <<[quantity |-> 2, price |-> 1000], [quantity |-> 1, price |-> 500]>>
    /\ \E d \in documents : d \in resDoc[p] /\ d.neto = 2500 /\ d.tax = 475 /\ d.total = 2975

\* C10: with a non-empty item list the supplied total is ignored and the
\* stored total is the derived neto + tax; with an empty list the supplied
\* total is stored as it is (0 if none) and neto and tax are 0.
C10_SuppliedTotal ==
  \A p \in Writers :
    (pc[p] = "done" /\ res[p] = "200") =>
      \A d \in resDoc[p] :
        IF Len(req[p].items) > 0
          THEN d.total = SumQP(req[p].items) + d.tax /\ d.total = d.neto + d.tax
          ELSE /\ d.total = (IF req[p].total.k = "num" THEN req[p].total.v ELSE 0)
               /\ d.neto = 0
               /\ d.tax = 0

\* C10 witness: a create with no items and a supplied total of 1000 is
\* stored with total 1000, neto 0 and tax 0.
C10_Witness ==
  \E p \in Writers :
    /\ pc[p] = "done" /\ res[p] = "200"
    /\ req[p].items = <<>> /\ req[p].total = Num(1000)
    /\ \E d \in documents : d \in resDoc[p] /\ d.total = 1000 /\ d.neto = 0 /\ d.tax = 0

\* C11: a create whose body lacks company_id is refused and nothing of it
\* is persisted: its handler never answers 200, and no stored document and
\* no stored item belongs to a request without company.
C11_MissingFieldRejected ==
  /\ \A p \in Writers : req[p].company_id = Undef => res[p] # "200"
  /\ \A d \in documents : d.company_id # <<>>
  /\ \A i \in document_items :
       \A d \in documents : d.id = i.document_id => d.company_id # <<>>

\* C12: with an explicit folio the allocation query is never run, the folio
\* of the pending row, of the answered document and of the stored row is the
\* value of the body, and the header insert can succeed whatever folios the
\* stored and pending documents of the type have.
C12_ExplicitFolioVerbatim ==
  \A p \in Writers :
    Truthy(req[p].folio) =>
      /\ pc[p] # "folio"
      /\ InProgress(p) => nextFolio[p] = req[p].folio.v
      /\ \A d \in txDocs[p] \cup resDoc[p] : d.folio = req[p].folio.v
      /\ (pc[p] = "done" /\ res[p] = "200") => resDoc[p] # {}
      /\ \A d \in documents : \A e \in resDoc[p] : d.id = e.id => d = e
      /\ pc[p] = "header" => ENABLED (InsertHeader(p) /\ pc'[p] # "rollback")

\* C12 witness: a create with explicit folio 6060 was answered 200 and its
\* row is stored with folio 6060 beside an older stored document of the same
\* type and the same folio.
C12_Witness ==
  \E p \in Writers :
    /\ pc[p] = "done" /\ res[p] = "200" /\ req[p].folio = Num(6060)
    /\ \E d \in resDoc[p] :
         /\ d \in documents /\ d.folio = 6060
         /\ \E e \in documents : e.id < d.id /\ e.type = d.type /\ e.folio = d.folio

\* A document of that id is stored.
Stored(id) == \E d \in documents : d.id = id

\* C13: a step that removes the document of an id removes exactly that
\* document and exactly the items referencing it, the documents and items of
\* every other id staying as they were; and for every id handed out whose
\* document is neither stored nor pending, the item lookup is empty.
C13_DeleteCascade ==
  /\ [][\A id \in DocIds :
          (Stored(id) /\ ~Stored(id)') =>
            /\ documents' = {d \in documents : d.id # id}
            /\ document_items' = {i \in document_items : i.document_id # id}
            /\ ItemsOf(id)' = {}
       ]_vars
  /\ [](\A id \in 1 .. doc_seq :
          (~Stored(id) /\ \A p \in Writers : docId[p] # id) => ItemsOf(id) = {})

\* C13 witness: two documents with two items each were created and the first
\* was deleted: the second and its two items are all that is stored.
C13_Witness ==
  /\ doc_seq = 2 /\ item_seq = 4 /\ Cardinality(issued) = 2
  /\ ~Stored(1) /\ ItemsOf(1) = {}
  /\ Stored(2) /\ Cardinality(documents) = 1
  /\ Cardinality(ItemsOf(2)) = 2 /\ document_items = ItemsOf(2)

\* C14: every stored item references a stored document, and every pending
\* item references the header pending in the same transaction.
C14_NoOrphanItems ==
  /\ \A i \in document_items : Stored(i.document_id)
  /\ \A p \in Writers : \A i \in txItems[p] :
       /\ i.document_id = docId[p]
       /\ \E d \in txDocs[p] : d.id = i.document_id

\* C14 witness: a document with two items was created and its status
\* updated, and a second create with two items failed after inserting them:
\* the two stored items are those of the stored document.
C14_Witness ==
  /\ pc[1] = "done" /\ res[1] = "500" /\ Len(req[1].items) = 2 /\ item_seq = 4
  /\ \E d \in documents : documents = {d} /\ d.status = "Pagada"
  /\ Cardinality(document_items) = 2

\* C15: no two stored documents have the same id; every step leaves the
\* folio, type, company_id, neto, tax and total of each document that stays
\* stored as they were, so they are those of its creation; and the type and
\* folio of every stored document are a pair that a create committed.
C15_ImmutableAfterCreation ==
  /\ [](\A d, e \in documents : d.id = e.id => d = e)
  /\ [][\A d \in documents : \A e \in documents' :
          e.id = d.id =>
            /\ e.folio = d.folio /\ e.type = d.type /\ e.company_id = d.company_id
            /\ e.neto = d.neto /\ e.tax = d.tax /\ e.total = d.total
       ]_vars
  /\ [](\A d \in documents : <<d.type, d.folio>> \in issued)

\* C15 witness: the first document, created with two items, has had its
\* status updated, and a second document was created and deleted; the first
\* still has folio 6060, neto 2500, tax 475 and total 2975.
C15_Witness ==
  /\ doc_seq = 2 /\ Cardinality(issued) = 2 /\ ~Stored(2)
  /\ \E d \in documents :
       /\ d.id = 1 /\ d.status = "Pagada" /\ d.folio = 6060
       /\ d.neto = 2500 /\ d.tax = 475 /\ d.total = 2975

\* The item rows S are the request's item list: as many rows as items, in
\* the order of their ids the quantity and price of each item, and
\* total = quantity * price.
SameItems(S, items) ==
  \E base \in 0 .. item_seq :
    {<<i.id - base, i.quantity, i.price, i.total>> : i \in S}
      = {<<j, items[j].quantity, items[j].price, items[j].quantity * items[j].price>> :
           j \in 1 .. Len(items)}

\* C16: while the handler still holds the request and the answer of a
\* successful create and the document is stored (not deleted), every reader
\* result for that document, of the list or of the view, carries the folio,
\* neto, tax and total of the created document and exactly the items of the
\* request; and when the document has a company, the view finds it and the
\* unfiltered list contains it.
C16_RoundTrip ==
  \A p \in Writers : \A c \in resDoc[p] :
    (pc[p] = "done" /\ res[p] = "200" /\ Stored(c.id)) =>
      /\ \A r \in Readers : \A k \in 1 .. Len(rdOut[r]) :
           rdOut[r][k].doc.id = c.id =>
             /\ rdOut[r][k].doc.folio = c.folio
             /\ rdOut[r][k].doc.neto = c.neto
             /\ rdOut[r][k].doc.tax = c.tax
             /\ rdOut[r][k].doc.total = c.total
             /\ SameItems(rdOut[r][k].items, req[p].items)
      /\ \A r \in Readers :
           (c.company_id # <<>> /\ rpc[r] \in {"idle", "done"}) =>
             /\ ENABLED (RenderDocument(r, c.id) /\ rpc'[r] = "render")
             /\ ENABLED (ListDocuments(r, "")
                          /\ \E k \in 1 .. Len(rdRows'[r]) : rdRows'[r][k].id = c.id)

\* C16 witness: a create with the items (2 x 1000) and (1 x 500) was
\* answered 200, and a list read afterwards has returned the document with
\* folio 6060, total 2975 and two items.
C16_Witness ==
  \E r \in Readers : \E k \in 1 .. Len(rdOut[r]) :
    /\ rreq[r].op = "list" /\ rres[r] = "200"
    /\ pc[1] = "done" /\ res[1] = "200" /\ req[1].items = <<ItemA, ItemB>>
    /\ \E c \in resDoc[1] :
         /\ Stored(c.id) /\ rdOut[r][k].doc.id = c.id
         /\ rdOut[r][k].doc.folio = 6060 /\ rdOut[r][k].doc.total = 2975
         /\ Cardinality(rdOut[r][k].items) = 2

\* C17: the view of an id that no stored document has can only end with
\* 404; a view that ended with 404 found no row, generated no page and is
\* over; a view generates a page only of a document of the requested id; and
\* a rejected query is answered 500, not 404.
C17_NotFound ==
  /\ \A r \in Readers : \A id \in DocIds :
       (rpc[r] \in {"idle", "done"} /\ ~Stored(id)) =>
         /\ ENABLED RenderDocument(r, id)
         /\ ~ENABLED (RenderDocument(r, id) /\ rres'[r] # "404")
         /\ ENABLED (FirstQueryFail(r, VerRequest(id)) /\ rres'[r] = "500")
  /\ \A r \in Readers :
       rreq[r].op = "ver" =>
         /\ rres[r] = "404" => (rpc[r] = "done" /\ rdRows[r] = <<>> /\ rdOut[r] = <<>>)
         /\ rres[r] = "200" =>
              (Len(rdOut[r]) = 1 /\ rdOut[r][1].doc.id = rreq[r].id)
         /\ rres[r] = "500" => rdOut[r] = <<>>

\* C17 witness: the view of the id of a deleted document has ended with 404
\* and no page, while another document is stored.
C17_Witness ==
  \E r \in Readers :
    /\ rreq[r].op = "ver" /\ rres[r] = "404" /\ rpc[r] = "done" /\ rdOut[r] = <<>>
    /\ rreq[r].id <= doc_seq /\ ~Stored(rreq[r].id)
    /\ documents # {}

\* C18: every step of a list or of a view, whatever it ends with, leaves the
\* tables documents and document_items and their id sequences as they were.
C18_PureReads ==
  [][readers' # readers =>
       /\ documents' = documents
       /\ document_items' = document_items
       /\ doc_seq' = doc_seq
       /\ item_seq' = item_seq
    ]_vars

\* C18 witness: a view has generated the page of a stored document that has
\* items.
C18_Witness ==
  \E r \in Readers :
    /\ rreq[r].op = "ver" /\ rres[r] = "200" /\ Len(rdOut[r]) = 1
    /\ rdOut[r][1].doc \in documents
    /\ rdOut[r][1].items # {} /\ rdOut[r][1].items \subseteq document_items

\* C19: a step that changes the status of the document of an id changes
\* nothing else: the other fields of that document, every other document
\* and every item are as they were; and the status of every stored document
\* can be set to any value, whatever its other fields are.
C19_StatusOnly ==
  /\ [][\A d \in documents : \A e \in documents' :
          (e.id = d.id /\ e.status # d.status) =>
            /\ e = [d EXCEPT !.status = e.status]
            /\ {x \in documents' : x.id # d.id} = {x \in documents : x.id # d.id}
            /\ document_items' = document_items
            /\ doc_seq' = doc_seq /\ item_seq' = item_seq
       ]_vars
  /\ [](\A d \in documents : \A s \in StatusInputs :
          s # d.status =>
            ENABLED (UpdateStatus(d.id, s) /\ [d EXCEPT !.status = s] \in documents'))

\* C19 witness: of two stored documents the first has had its status set to
\* "Pagada"; the second still has the status of its creation and the two
\* items of the first are stored.
C19_Witness ==
  \E d, e \in documents :
    /\ d.id = 1 /\ d.status = "Pagada" /\ d.total = 2975
    /\ e.id = 2 /\ e.status = "Emitida"
    /\ Cardinality(ItemsOf(1)) = 2

\* The stored documents of one type.
OfType(rows, t) == {d \in rows : d.type = t}

\* C20: a step that leaves the stored documents of a type as they were,
\* whatever it does to documents of other types, leaves the folio the
\* allocation query yields for that type as it was; and the folio a handler
\* is allocated is the one the query yields on the documents of its type
\* alone.
C20_PerTypeIndependent ==
  [][/\ \A t \in Types :
          OfType(documents', t) = OfType(documents, t) =>
            NextFolioQuery(documents', t) = NextFolioQuery(documents, t)
     /\ \A p \in Writers :
          (pc[p] = "folio" /\ pc'[p] = "header") =>
            /\ nextFolio'[p] = NextFolioQuery(OfType(documents, req[p].type), req[p].type)
            /\ nextFolio'[p] = Greatest(MaxOrZero(FoliosOf(documents, req[p].type)) + 1, 6060)
    ]_vars

\* C20 witness: after a document of one type was created with folio 6060,
\* its status updated, the first document of the other type was created
\* and has folio 6060 as well.
C20_Witness ==
  \E d, e \in documents :
    /\ d.id = 1 /\ e.id = 2 /\ d.type # e.type
    /\ d.folio = 6060 /\ e.folio = 6060 /\ d.status = "Pagada"
    /\ AutoCreated(1)

\* x is a run of consecutive characters of s.
IsSubstring(x, s) ==
  \E i \in 0 .. Len(s) - Len(x) : SubSeq(s, i + 1, i + Len(x)) = x

\* The documents the list is to return for a type filter ("" if none) and
\* a search text (<<>> if none): those with a company, of that type, in
\* which the text is, whatever the case, part of the company name, of the
\* folio as text or of the reference.
Matching(type, search) ==
  {d \in documents :
     /\ d.company_id # <<>>
     /\ d.company_id[1] \in Companies
     /\ type # "" => d.type = type
     /\ search # <<>> =>
          \/ IsSubstring(LowerText(search), LowerText(CompanyNames[d.company_id[1]]))
          \/ IsSubstring(LowerText(search), LowerText(IntToText(d.folio)))
          \/ IsSubstring(LowerText(search), LowerText(d.reference))}

\* The document rows of a reader's first query.
RowSet(rows) == {rows[k] : k \in 1 .. Len(rows)}

\* C21: the first query of a list returns exactly the joined documents of
\* the type of the filter, if one is given, in which the search text, if
\* one is given, is a case-insensitive substring of the company name, of the
\* folio as text or of the reference.
C21_ListFilter ==
  [][\A r \in Readers :
       (rpc[r] \in {"idle", "done"} /\ readers' # readers
          /\ rreq'[r].op = "list" /\ rres'[r] # "500") =>
         RowSet(rdRows'[r]) = Matching(rreq'[r].type, rreq'[r].search)
    ]_vars

\* C22: the rows of a list are in strictly decreasing order of id, whatever
\* their folios, the documents of its result are those rows in that order,
\* and each items query pairs its document with exactly the stored items
\* whose document_id is the id of that document.
C22_ListOrderAndItems ==
  /\ [](\A r \in Readers :
          /\ \A j, k \in 1 .. Len(rdRows[r]) : j < k => rdRows[r][j].id > rdRows[r][k].id
          /\ Len(rdOut[r]) <= Len(rdRows[r])
          /\ \A k \in 1 .. Len(rdOut[r]) : rdOut[r][k].doc = rdRows[r][k])
  /\ [][\A r \in Readers :
          (rpc[r] = "items" /\ Len(rdOut'[r]) = Len(rdOut[r]) + 1) =>
            LET o == rdOut'[r][Len(rdOut'[r])]
            IN o.items = {i \in document_items : i.document_id = o.doc.id}
       ]_vars

\* C22 witness: a list has returned two documents, the newer one first
\* although its folio, 60, is the smaller, and the older one, folio 6060,
\* with its two items.
C22_Witness ==
  \E r \in Readers :
    /\ rreq[r].op = "list" /\ rres[r] = "200" /\ Len(rdOut[r]) = 2
    /\ rdOut[r][1].doc.id = 2 /\ rdOut[r][1].doc.folio = 60 /\ rdOut[r][1].items = {}
    /\ rdOut[r][2].doc.id = 1 /\ rdOut[r][2].doc.folio = 6060
    /\ Cardinality(rdOut[r][2].items) = 2

\* C23: every stored document that has at least one stored item has
\* total = neto + tax and a neto equal to the sum of the totals of its
\* stored items.
C23_TotalIsNetoPlusTax ==
  \A d \in documents :
    ItemsOf(d.id) # {} =>
      /\ d.total = d.neto + d.tax
      /\ d.neto = SumTotals(ItemsOf(d.id))

\* C23 witness: a document with two items, neto 2500, tax 475 and total
\* 2975, is stored with a changed status beside a document without items.
C23_Witness ==
  \E d, e \in documents :
    /\ Cardinality(ItemsOf(d.id)) = 2 /\ d.status = "Pagada"
    /\ d.neto = 2500 /\ d.tax = 475 /\ d.total = 2975
    /\ ItemsOf(e.id) = {} /\ e.total = 0

\* C24: the total of every stored and of every pending item is its own
\* quantity * price, and no step changes an item that stays stored.
C24_ItemTotalLiteral ==
  /\ [](\A i \in document_items \cup UNION {txItems[p] : p \in Writers} :
          i.total = i.quantity * i.price)
  /\ [][\A i \in document_items : \A j \in document_items' : j.id = i.id => j = i]_vars

\* C24 witness: the item (2 x 1000) is stored with total 2000 and the item
\* (1 x 500) with total 500, in a document whose status was updated after a
\* later document was created and deleted.
C24_Witness ==
  /\ doc_seq = 2 /\ ~Stored(2) /\ Cardinality(issued) = 2
  /\ \E d \in documents : d.id = 1 /\ d.status = "Pagada" /\ d.tax = 475
  /\ \E i, j \in ItemsOf(1) :
       /\ i.quantity = 2 /\ i.price = 1000 /\ i.total = 2000
       /\ j.quantity = 1 /\ j.price = 500 /\ j.total = 500

\* C25: the tax of a created document with items is
\* floor((19 * neto + 50) / 100), neto being the sum of quantity * price over
\* all its items: 0.19 * neto rounded half-up, once, on the aggregate.
C25_TaxRoundedOnAggregate ==
  \A p \in Writers :
    (pc[p] = "done" /\ res[p] = "200" /\ Len(req[p].items) > 0) =>
      \A d \in resDoc[p] :
        /\ d.tax = (19 * SumQP(req[p].items) + 50) \div 100
        /\ 100 * d.tax - 50 <= 19 * d.neto
        /\ 19 * d.neto < 100 * d.tax + 50

\* C25 witness: two items of (1 x 50) are stored with neto 100 and tax 19,
\* while 0.19 * 50 = 9.5 rounds to 10 for each item, 20 in sum.
C25_Witness ==
  \E p \in Writers :
    /\ pc[p] = "done" /\ res[p] = "200"
    /\ req[p].items = <<[quantity |-> 1, price |-> 50], [quantity |-> 1, price |-> 50]>>
    /\ PerItemTax(req[p].items) = 20
    /\ \E d \in documents : d \in resDoc[p] /\ d.neto = 100 /\ d.tax = 19 /\ d.total = 119

\* The body carries a folio that JavaScript takes as false: null, 0 or ''.
FalsyFolio(p) == req[p].folio \in {Null, Num(0), Str(<<>>)}

\* A falsy folio is treated as absent: the allocation query is sent when
\* BEGIN resolves, it yields greatest(M + 1, 6060), and the document
\* committed has that folio, not the value of the body.
FalsyFolioAllocates ==
  \A p \in Writers :
    FalsyFolio(p) =>
      /\ (pc[p] = "begin" /\ pc'[p] \notin {"begin", "rollback"}) => pc'[p] = "folio"
      /\ (pc[p] = "folio" /\ pc'[p] = "header") =>
           LET M == MaxOrZero(FoliosOf(documents, req[p].type))
           IN nextFolio'[p] = IF M + 1 >= 6060 THEN M + 1 ELSE 6060
      /\ (pc[p] = "commit" /\ res'[p] = "200") =>
           /\ resDoc'[p] # {} /\ resDoc'[p] \subseteq documents'
           /\ \A d \in resDoc'[p] : d.folio = nextFolio[p] /\ d.folio >= 6060

\* C26 as stated: a falsy folio is treated as absent, and no stored
\* document has folio 0.
C26_FolioZeroNeverStored ==
  /\ [][FalsyFolioAllocates]_vars
  /\ [](\A d \in documents : d.folio # 0)

\* C26 amended: a falsy folio is treated as absent, and a document is
\* committed with folio 0 only by a create whose body carries the folio as
\* the string '0', which JavaScript takes as true.
C26_FalsyFolioIsAbsent ==
  /\ [][FalsyFolioAllocates]_vars
  /\ [][\A p \in Writers :
          (pc[p] = "commit" /\ res'[p] = "200" /\ \E d \in resDoc'[p] : d.folio = 0) =>
            req[p].folio = Str(<<"0">>)
       ]_vars

\* C26 witness: a create with the number 0 as folio was answered 200 and
\* its document is stored with folio 6060, beside a document stored with
\* folio 0 by a create with the string '0'.
C26_Witness ==
  \E p \in Writers :
    /\ pc[p] = "done" /\ res[p] = "200" /\ req[p].folio = Num(0)
    /\ \E d \in resDoc[p] : d \in documents /\ d.folio = 6060
    /\ \E e \in documents : e.folio = 0

\* C27: every stored folio feeds the allocation, whether the allocator or a
\* body supplied it: when the query runs and F is the largest stored folio
\* of the type, the folio allocated is greatest(F + 1, 6060), above every
\* stored folio of the type.
C27_ExplicitFolioFeedsAllocation ==
  [][\A p \in Writers :
       (pc[p] = "folio" /\ pc'[p] = "header") =>
         \A d \in documents :
           (d.type = req[p].type
              /\ \A e \in documents : e.type = d.type => e.folio <= d.folio) =>
             /\ nextFolio'[p] = (IF d.folio + 1 >= 6060 THEN d.folio + 1 ELSE 6060)
             /\ nextFolio'[p] > d.folio
    ]_vars

\* C27 witness: the first document was created with the explicit folio 7000
\* and the next create, without folio, was answered 200 with folio 7001; no
\* folio from 6060 to 6999 was ever committed.
C27_Witness ==
  /\ AutoCreated(1)
  /\ \E d \in documents : d.id = 1 /\ d.folio = 7000
  /\ \E e \in resDoc[1] : e \in documents /\ e.id = 2 /\ e.folio = 7001
  /\ issued = {<<"FAC", 7000>>, <<"FAC", 7001>>}

\* C28: a handler that is done has acquired one client for its request and
\* released it once, whichever way it ended; a handler at work holds its
\* client unreleased; and each way of ending releases once.
C28_ConnectionReleased ==
  /\ [](\A p \in Writers :
          /\ pc[p] = "done" => conn[p] = [acquired |-> 1, released |-> 1]
          /\ pc[p] \notin {"idle", "done"} => conn[p] = [acquired |-> 1, released |-> 0]
          /\ pc[p] = "idle" => conn[p] = [acquired |-> 0, released |-> 0])
  /\ [][\A p \in Writers :
          (pc[p] \in {"commit", "rollback"} /\ pc'[p] = "done") =>
            conn'[p].released = conn[p].released + 1
       ]_vars

\* C28 witness: a create failed, its ROLLBACK was rejected too and no
\* response was sent; the client is released once.
C28_Witness ==
  \E p \in Writers :
    /\ pc[p] = "done" /\ res[p] = "none"
    /\ conn[p] = [acquired |-> 1, released |-> 1]

\* The company_id of the row is the id of a company.
HasCompany(d) == d.company_id # <<>> /\ d.company_id[1] \in Companies

\* C29: every row a list or a view has read has a company; and for every
\* stored document without company the view of its id can only end with
\* 404 and no list can return it.
C29_NoCompanyInvisible ==
  /\ \A r \in Readers :
       /\ \A k \in 1 .. Len(rdRows[r]) : HasCompany(rdRows[r][k])
       /\ \A k \in 1 .. Len(rdOut[r]) : HasCompany(rdOut[r][k].doc)
  /\ \A r \in Readers : \A d \in documents :
       (~HasCompany(d) /\ rpc[r] \in {"idle", "done"}) =>
         /\ ENABLED RenderDocument(r, d.id)
         /\ ~ENABLED (RenderDocument(r, d.id) /\ rres'[r] # "404")
         /\ \A t \in {"", d.type} :
              ~ENABLED (ListDocuments(r, t)
                        /\ \E k \in 1 .. Len(rdRows'[r]) : rdRows'[r][k].id = d.id)

\* C29 witness: a create without company_id was answered 200, its document
\* is stored with no company, and the view of its id has ended with 404.
C29_Witness ==
  \E r \in Readers :
    /\ pc[1] = "done" /\ res[1] = "200" /\ req[1].company_id = Undef
    /\ \E d \in resDoc[1] :
         /\ d \in documents /\ d.company_id = <<>>
         /\ rreq[r] = VerRequest(d.id) /\ rres[r] = "404" /\ rdOut[r] = <<>>

\* The rows of list r that its item queries have not reached yet.
Unpaired(r) == {rdRows[r][k] : k \in (Len(rdOut[r]) + 1) .. Len(rdRows[r])}

\* C30: the list is not a snapshot read. While a list is between its
\* document query and an item query, every document it has read and not yet
\* paired can still be deleted; and once the next row's document is gone,
\* the item query runs all the same and pairs the row, unchanged, with an
\* empty item list.
C30_ListNotSnapshot ==
  \A r \in Readers :
    rpc[r] = "items" =>
      /\ \A d \in Unpaired(r) : Stored(d.id) => ENABLED DeleteDocument(d.id)
      /\ LET doc == rdRows[r][Len(rdOut[r]) + 1]
         IN ~Stored(doc.id) =>
              /\ ENABLED ListItems(r)
              /\ ~ENABLED (ListItems(r)
                           /\ rdOut'[r][Len(rdOut'[r])] # [doc |-> doc, items |-> {}])

\* C30 witness: a list answered 200 with a document that was created with
\* two items (neto > 0) paired with an empty item list, the document having
\* been deleted between the document query and its item query.
C30_Witness ==
  \E r \in Readers :
    /\ rpc[r] = "done" /\ rres[r] = "200"
    /\ \E k \in 1 .. Len(rdOut[r]) :
         /\ rdOut[r][k].doc.neto > 0
         /\ rdOut[r][k].items = {}
         /\ ~Stored(rdOut[r][k].doc.id)

====
